---- MODULE Spec2Model ----
(***************************************************************************)
(* The two event steps of backend/src/steps/events:                        *)
(*   classify_message_step.py  (ClassifyMessage: message.enriched ->       *)
(*                              message.classified)                        *)
(*   extract_inquiry_step.py   (ExtractInquiry: inquiry.received ->        *)
(*                              inquiry.extracted, store "inquiries")      *)
(*                                                                         *)
(* Python dicts are functions whose DOMAIN is the set of keys present.     *)
(* Scalar values are strings; the Python value None is the string "None".  *)
(* Opaque structured values (a sender object, a header map, a list of      *)
(* message ids, the extracted deal) are string tokens, with "{}" and "[]"  *)
(* the empty dict and the empty list.                                      *)
(*                                                                         *)
(* The collaborators: the completion service raises or returns a text;     *)
(* context.emit delivers, or raises before or after delivering;            *)
(* context.state get and set always complete, one key at a time; the Groq  *)
(* client is constructed with its API key set.  Each await of the store    *)
(* and of the emit is a point where another invocation may run.            *)
(***************************************************************************)
EXTENDS Naturals, Sequences, FiniteSets, TLC

(* ---------------------------------------------------------------- Python *)

None == "None"

EmptyDict == [k \in {} |-> None]

\* dict.get(k): the value, or None when the key is absent
Get(d, k) == IF k \in DOMAIN d THEN d[k] ELSE None

\* dict.get(k, default)
GetD(d, k, default) == IF k \in DOMAIN d THEN d[k] ELSE default

\* truth value of a scalar or token: None, "", {} and [] are false
Truthy(v) == v \notin {None, "", "{}", "[]"}

\* truth value of a dict held as a function: {} (and None, which state.get
\* returns for a missing key and which is held as the empty function) is false
TruthyDict(d) == DOMAIN d # {}

\* datetime.datetime.now().isoformat()
NowIso == "2025-01-01T00:00:00"

\* sender.get("name") for the sender tokens
SenderName(sender) ==
    CASE sender = "S1" -> "Asha"
      [] sender = "S0" -> "Ravi"
      [] OTHER -> None

(* ------------------------------------------------- the external services *)

\* What the completion service does when called: raise, or return a text.
RaiseConnection == [raises |-> TRUE, msg |-> "Connection error."]
Returns(text)   == [raises |-> FALSE, content |-> text]

\* context.emit: delivered, raised without delivering, raised after delivering
EmitOutcomes == {"ok", "raise", "raise_delivered"}
EmitDelivers(o) == o \in {"ok", "raise_delivered"}
EmitRaises(o) == o \in {"raise", "raise_delivered"}
EmitErrorMsg == "emit failed"

(* --------------------------------------------------- json.loads (a table) *)

TextNotJson   == "not json"
TextList      == "[]"
TextEmptyObj  == "{}"
TextBrand     == "{isBrandInquiry:true,confidence:0.9,reasoning:wants a reel,keywords:[collab]}"
TextNotBrand  == "{isBrandInquiry:false,confidence:0.8,reasoning:fan mail,keywords:[]}"
TextPartial   == "{isBrandInquiry:true}"
TextBadConf   == "{isBrandInquiry:true,confidence:high}"
TextDeal1     == "{brand:{contactPerson:Meera},campaign:{budget:{amount:50000}},urgency:high}"
TextDeal2     == "{campaign:{},urgency:low}"
TextBrandNull == "{brand:null}"

JsonDecodeMsg == "Expecting value: line 1 column 1 (char 0)"

\* json.loads(text): [ok |-> FALSE, err] for a JSONDecodeError, otherwise
\* [ok |-> TRUE, isObject, value]; value is the parsed dict, its nested
\* objects held as tokens.
JsonLoads(text) ==
    CASE text = TextNotJson ->
           [ok |-> FALSE, err |-> JsonDecodeMsg]
      [] text = TextList ->
           [ok |-> TRUE, isObject |-> FALSE, value |-> EmptyDict]
      [] text = TextEmptyObj ->
           [ok |-> TRUE, isObject |-> TRUE, value |-> EmptyDict]
      [] text = TextBrand ->
           [ok |-> TRUE, isObject |-> TRUE,
            value |-> [isBrandInquiry |-> TRUE, confidence |-> "0.9",
                       reasoning |-> "wants a reel", keywords |-> <<"collab">>]]
      [] text = TextNotBrand ->
           [ok |-> TRUE, isObject |-> TRUE,
            value |-> [isBrandInquiry |-> FALSE, confidence |-> "0.8",
                       reasoning |-> "fan mail", keywords |-> <<>>]]
      [] text = TextPartial ->
           [ok |-> TRUE, isObject |-> TRUE, value |-> [isBrandInquiry |-> TRUE]]
      [] text = TextBadConf ->
           [ok |-> TRUE, isObject |-> TRUE,
            value |-> [isBrandInquiry |-> TRUE, confidence |-> "high"]]
      [] text = TextDeal1 ->
           [ok |-> TRUE, isObject |-> TRUE,
            value |-> [brand |-> "{contactPerson:Meera}",
                       campaign |-> "{budget:{amount:50000}}", urgency |-> "high"]]
      [] text = TextDeal2 ->
           [ok |-> TRUE, isObject |-> TRUE,
            value |-> [campaign |-> "{}", urgency |-> "low"]]
      [] text = TextBrandNull ->
           [ok |-> TRUE, isObject |-> TRUE, value |-> [brand |-> None]]

(* ------------------------------------------------------------- variables *)

VARIABLES
    \* one ClassifyMessage invocation (classify_message_step.py, handler)
    cPc,        \* where the handler is
    cInput,     \* input_data
    cResp,      \* what the completion service does for this invocation
    cExc,       \* str(e) of the exception being handled or escaping
    cEmitData,  \* emit_data, built before the emit
    cCalls,     \* calls of client.chat.completions.create
    cEmitted,   \* events context.emit delivered, in order
    cEmitCalls, \* calls of context.emit
    cLog,       \* context.logger warn and error records, in order
    \* the ExtractInquiry invocations (extract_inquiry_step.py, handler)
    pc,         \* where each handler is
    input_data, \* each invocation's input_data
    resp,       \* what the completion service did when each invocation called it
    extracted,  \* each invocation's parsed object
    inquiry,    \* each invocation's local inquiry record
    error_msg,  \* the error_msg passed to mark_as_failed
    calls,      \* calls of client.chat.completions.create, per invocation
    emitted,    \* events context.emit delivered, per invocation
    log,        \* context.logger warn and error records, per invocation
    store,      \* context.state, collection "inquiries": inquiryId -> record
    lastSetBy,  \* per inquiryId, the invocation whose state.set ran last
    persisted,  \* per invocation, the record its line-154 state.set wrote
    delivered   \* inquiry.received events dispatched so far

cvars == <<cPc, cInput, cResp, cExc, cEmitData, cCalls, cEmitted, cEmitCalls, cLog>>
evars == <<pc, input_data, resp, extracted, inquiry, error_msg, calls, emitted,
           log, store, lastSetBy, persisted, delivered>>
vars == <<cvars, evars>>

(* ------------------------------------------- ClassifyMessage: the handler *)

\* the inputs: messageId and source always, every other key optional
Opt(k, vals) == {EmptyDict} \cup {k :> v : v \in vals}

ClassifyInputs ==
    { [messageId |-> "m1", source |-> src] @@ b @@ h @@ p @@ s @@ irt @@ refs @@ hdrs :
        src \in {"email", "facebook"},
        b \in Opt("body", {"", "We want a reel"}),
        h \in Opt("html", {"", "<p>We want a reel</p>"}),
        p \in {EmptyDict, [subject |-> "Collab", senderId |-> "u1", pageName |-> "Page"]},
        s \in Opt("sender", {"S1"}),
        irt \in Opt("inReplyTo", {"", "<msg1>"}),
        refs \in Opt("references", {"[]", "[<msg0>]"}),
        hdrs \in Opt("emailHeaders", {"{}", "{Message-ID:<msg2>}"}) }

ClassifyResponses ==
    {RaiseConnection} \cup
    {Returns(t) : t \in {TextBrand, TextNotBrand, TextPartial, TextEmptyObj,
                         TextBadConf, TextNotJson, TextList}}

\* line 43: the text the handler classifies
ClassifyBody(d) == Get(d, "html")

\* line 57: body[:100] raises TypeError when body is None
SliceRaises(body) == body = None

NoneSliceMsg == "'NoneType' object is not subscriptable"

\* line 131: f"{confidence:.2%}" raises ValueError unless confidence is a number
IsNumber(c) == c \in {"0.0", "0.8", "0.9"}

FormatMsg == "Unknown format code '%' for object of type 'str'"
NotObjectMsg == "'list' object has no attribute 'get'"

\* lines 152-158 (and their copies 189-195, 225-231): the email threading
\* metadata added to emit_data
ThreadKeys == {"inReplyTo", "references", "emailHeaders"}

\* the threading metadata forwarded whatever the source
ThreadingMetadataAnySource(d) ==
    [k \in {k \in ThreadKeys : Truthy(Get(d, k))} |-> d[k]]

ThreadingMetadata(d) ==
    IF Get(d, "source") = "email"
    THEN [k \in {k \in ThreadKeys : Truthy(Get(d, k))} |-> d[k]]
    ELSE EmptyDict

\* lines 137-150, 174-187, 210-223: emit_data before the threading metadata
BaseEmitData(d, is_brand_inquiry, confidence, reasoning, keywords) ==
    [messageId      |-> Get(d, "messageId"),
     source         |-> Get(d, "source"),
     body           |-> ClassifyBody(d),
     subject        |-> GetD(d, "subject", ""),
     senderId       |-> Get(d, "senderId"),
     sender         |-> GetD(d, "sender", "{}"),
     pageName       |-> Get(d, "pageName"),
     isBrandInquiry |-> is_brand_inquiry,
     confidence     |-> confidence,
     reasoning      |-> reasoning,
     keywords       |-> keywords,
     classifiedAt   |-> NowIso]

\* lines 124-158: the success branch
SuccessEmitData(d, classification) ==
    ThreadingMetadata(d) @@
    BaseEmitData(d, GetD(classification, "isBrandInquiry", FALSE),
                    GetD(classification, "confidence", "0.0"),
                    GetD(classification, "reasoning", "No reasoning provided"),
                    GetD(classification, "keywords", <<>>))

\* lines 174-195: the JSONDecodeError branch
ParseFailureEmitData(d, json_err) ==
    ThreadingMetadata(d) @@
    BaseEmitData(d, FALSE, "0.0", "Classification failed: " \o json_err, <<>>)

\* lines 210-231: the outer exception handler
ErrorEmitData(d, e) ==
    ThreadingMetadata(d) @@
    BaseEmitData(d, FALSE, "0.0", "Classification error: " \o e, <<>>)

ClassifiedEvent(data) == [topic |-> "message.classified", data |-> data]

\* the runtime dispatches a message.enriched event to the handler
CReceive(d, r) ==
    /\ cPc = "idle"
    /\ cPc' = "entry"
    /\ cInput' = d
    /\ cResp' = r
    /\ UNCHANGED <<cExc, cEmitData, cCalls, cEmitted, cEmitCalls, cLog>>
    /\ UNCHANGED evars

\* lines 42-61: read the fields, log, return early without a body
CEntry ==
    /\ cPc = "entry"
    /\ LET body == ClassifyBody(cInput) IN
         IF SliceRaises(body)
         THEN /\ cPc' = "raised"
              /\ cExc' = NoneSliceMsg
              /\ cLog' = cLog
         ELSE IF ~Truthy(body)
         THEN /\ cPc' = "returned"
              /\ cLog' = Append(cLog, "warn: No message body")
              /\ cExc' = cExc
         ELSE /\ cPc' = "call"
              /\ UNCHANGED <<cExc, cLog>>
    /\ UNCHANGED <<cInput, cResp, cEmitData, cCalls, cEmitted, cEmitCalls>>
    /\ UNCHANGED evars

\* lines 63-119: the one call of the completion service
CCall ==
    /\ cPc = "call"
    /\ cCalls' = cCalls + 1
    /\ IF cResp.raises
       THEN /\ cPc' = "except"
            /\ cExc' = cResp.msg
       ELSE /\ cPc' = "parse"
            /\ cExc' = cExc
    /\ UNCHANGED <<cInput, cResp, cEmitData, cEmitted, cEmitCalls, cLog>>
    /\ UNCHANGED evars

\* lines 121-158 and 167-195: parse the completion text and build emit_data
CParse ==
    /\ cPc = "parse"
    /\ LET parsed == JsonLoads(cResp.content) IN
         IF ~parsed.ok
         THEN /\ cPc' = "emit_parse_failure"
              /\ cEmitData' = ParseFailureEmitData(cInput, parsed.err)
              /\ cLog' = Append(cLog, "error: JSON PARSE ERROR")
              /\ cExc' = cExc
         ELSE IF ~parsed.isObject
         THEN /\ cPc' = "except"
              /\ cExc' = NotObjectMsg
              /\ UNCHANGED <<cEmitData, cLog>>
         ELSE IF ~IsNumber(GetD(parsed.value, "confidence", "0.0"))
         THEN /\ cPc' = "except"
              /\ cExc' = FormatMsg
              /\ UNCHANGED <<cEmitData, cLog>>
         ELSE /\ cPc' = "emit_success"
              /\ cEmitData' = SuccessEmitData(cInput, parsed.value)
              /\ UNCHANGED <<cExc, cLog>>
    /\ UNCHANGED <<cInput, cResp, cCalls, cEmitted, cEmitCalls>>
    /\ UNCHANGED evars

\* lines 160-163 and 197-200: the emit of the inner try block
CEmit(o) ==
    /\ cPc \in {"emit_success", "emit_parse_failure"}
    /\ cEmitCalls' = cEmitCalls + 1
    /\ cEmitted' = IF EmitDelivers(o)
                   THEN Append(cEmitted, ClassifiedEvent(cEmitData))
                   ELSE cEmitted
    /\ IF EmitRaises(o)
       THEN /\ cPc' = "except"
            /\ cExc' = EmitErrorMsg
       ELSE /\ cPc' = "returned"
            /\ cExc' = cExc
    /\ UNCHANGED <<cInput, cResp, cEmitData, cCalls, cLog>>
    /\ UNCHANGED evars

\* lines 202-231: the outer exception handler builds the default emit_data
CExcept ==
    /\ cPc = "except"
    /\ cPc' = "emit_error"
    /\ cEmitData' = ErrorEmitData(cInput, cExc)
    /\ cLog' = Append(cLog, "error: CLASSIFICATION FAILED")
    /\ UNCHANGED <<cInput, cResp, cExc, cCalls, cEmitted, cEmitCalls>>
    /\ UNCHANGED evars

\* lines 233-236: the emit of the exception handler; what it raises escapes
CEmitError(o) ==
    /\ cPc = "emit_error"
    /\ cEmitCalls' = cEmitCalls + 1
    /\ cEmitted' = IF EmitDelivers(o)
                   THEN Append(cEmitted, ClassifiedEvent(cEmitData))
                   ELSE cEmitted
    /\ IF EmitRaises(o)
       THEN /\ cPc' = "raised"
            /\ cExc' = EmitErrorMsg
       ELSE /\ cPc' = "returned"
            /\ cExc' = cExc
    /\ UNCHANGED <<cInput, cResp, cEmitData, cCalls, cLog>>
    /\ UNCHANGED evars

CInit ==
    /\ cPc = "idle"
    /\ cInput = EmptyDict
    /\ cResp = RaiseConnection
    /\ cExc = ""
    /\ cEmitData = EmptyDict
    /\ cCalls = 0
    /\ cEmitted = <<>>
    /\ cEmitCalls = 0
    /\ cLog = <<>>

CNext ==
    \/ cPc = "idle" /\ \E d \in ClassifyInputs, r \in ClassifyResponses : CReceive(d, r)
    \/ CEntry
    \/ CCall
    \/ CParse
    \/ \E o \in EmitOutcomes : CEmit(o)
    \/ CExcept
    \/ \E o \in EmitOutcomes : CEmitError(o)


(* -------------------------------------------- ExtractInquiry: the handler *)

\* inquiry.received events dispatched in a run
MaxDeliveries == 2

\* the invocations that can be in progress at once
Invocations == {"a", "b"}

\* the inquiry the events are about, and one no event is about
InquiryIds == {"i1"}
OtherId == "i9"

Nobody == "nobody"

ExtractInputs ==
    { [inquiryId |-> i, source |-> "email"] @@ b :
        i \in InquiryIds,
        b \in {EmptyDict,
               [body |-> ""],
               [body |-> "We want a reel, budget 50000 INR"],
               [body |-> "We want a reel, budget 50000 INR",
                threadKey |-> "tk1", sender |-> "S1"],
               [body |-> "We want a reel, budget 50000 INR",
                threadKey |-> "", sender |-> "{}"]} }

ExtractResponses ==
    {RaiseConnection} \cup
    {Returns(t) : t \in {TextDeal1, TextDeal2, TextNotJson, TextBrandNull}}

\* the records the upstream step creates, status "received"
ReceivedPlain(i) == [id |-> i, status |-> "received"]
ReceivedFull(i) == [id |-> i, status |-> "received", sender |-> "S0", threadKey |-> "tk0"]

InitialStores ==
    { [i \in {OtherId} |-> ReceivedFull(i)],
      [i \in InquiryIds \cup {OtherId} |-> ReceivedPlain(i)],
      [i \in InquiryIds \cup {OtherId} |-> ReceivedFull(i)] }

\* context.state.get("inquiries", k): the record, or None (held as {})
StateGet(st, k) == IF k \in DOMAIN st THEN st[k] ELSE EmptyDict

\* context.state.set("inquiries", k, v)
StateSet(st, k, v) == (k :> v) @@ st

\* Python's `a or b` on scalars and tokens
Or(a, b) == IF Truthy(a) THEN a ELSE b

\* lines 120-127: the logging reads extracted.get('brand', {}).get(...) and
\* extracted.get('campaign', {}).get(...): AttributeError when either is null
LoggingRaises(x) ==
    \/ GetD(x, "brand", "{}") = None
    \/ GetD(x, "campaign", "{}") = None

NoneGetMsg == "'NoneType' object has no attribute 'get'"

\* a stub whatever was found
LoadAlwaysStub(found, inquiry_id) == [id |-> inquiry_id]

\* lines 142-144 and line 184: the record found, or a stub
LoadOrStub(found, inquiry_id) ==
    IF ~TruthyDict(found) THEN [id |-> inquiry_id] ELSE found

\* the update with the stored fields taking precedence over the new ones
ExtractedInquiryStoredWins(inq, x, sender) ==
    LET upd == inq @@ [status |-> "extracted", extractedData |-> x, extractedAt |-> NowIso]
    IN  IF Truthy(sender) /\ ~Truthy(Get(upd, "sender"))
        THEN ("sender" :> sender) @@ upd
        ELSE upd

\* the update without the extractedAt timestamp
ExtractedInquiryNoTimestamp(inq, x, sender) ==
    LET upd == [status |-> "extracted", extractedData |-> x] @@ inq
    IN  IF Truthy(sender) /\ ~Truthy(Get(upd, "sender"))
        THEN ("sender" :> sender) @@ upd
        ELSE upd

\* the update with the input's sender replacing the stored one
ExtractedInquiryInputSenderWins(inq, x, sender) ==
    LET upd == [status |-> "extracted", extractedData |-> x, extractedAt |-> NowIso] @@ inq
    IN  IF Truthy(sender)
        THEN ("sender" :> sender) @@ upd
        ELSE upd

\* lines 146-152: the success path's update of the local record
ExtractedInquiry(inq, x, sender) ==
    LET upd == [status |-> "extracted", extractedData |-> x, extractedAt |-> NowIso] @@ inq
    IN  IF Truthy(sender) /\ ~Truthy(Get(upd, "sender"))
        THEN ("sender" :> sender) @@ upd
        ELSE upd

\* the update without the error field
FailedInquiryNoError(inq, msg) ==
    [status |-> "extraction_failed"] @@ inq

\* the update putting the inquiry back to "received" for a retry
FailedInquiryRequeue(inq, msg) ==
    [status |-> "received", error |-> msg] @@ inq

\* lines 185-186: mark_as_failed's update of the local record
FailedInquiry(inq, msg) ==
    [status |-> "extraction_failed", error |-> msg] @@ inq

\* the event with the stored threadKey and sender preferred to the input's
ExtractedEventStoredFirst(d, inq, x) ==
    [topic |-> "inquiry.extracted",
     data  |-> [inquiryId |-> Get(d, "inquiryId"),
                source    |-> Get(d, "source"),
                threadKey |-> Or(Get(inq, "threadKey"), Get(d, "threadKey")),
                extracted |-> x,
                sender    |-> Or(Get(inq, "sender"), Get(d, "sender"))]]

\* lines 159-168: the inquiry.extracted event
ExtractedEvent(d, inq, x) ==
    [topic |-> "inquiry.extracted",
     data  |-> [inquiryId |-> Get(d, "inquiryId"),
                source    |-> Get(d, "source"),
                threadKey |-> Or(Get(d, "threadKey"), Get(inq, "threadKey")),
                extracted |-> x,
                sender    |-> Or(Get(d, "sender"), Get(inq, "sender"))]]

\* lines 182-187: mark_as_failed run without interruption on a store
mark_as_failed(st, inquiry_id, msg) ==
    StateSet(st, inquiry_id,
             FailedInquiry(LoadOrStub(StateGet(st, inquiry_id), inquiry_id), msg))

IdOf(p) == Get(input_data[p], "inquiryId")

\* the completion service not called yet
NotCalled == [raises |-> FALSE, content |-> ""]

\* the runtime dispatches an inquiry.received event to a fresh invocation
EReceive(p, d) ==
    /\ pc[p] \in {"idle", "returned"}
    /\ delivered < MaxDeliveries
    /\ delivered' = delivered + 1
    /\ pc' = [pc EXCEPT ![p] = "entry"]
    /\ input_data' = [input_data EXCEPT ![p] = d]
    /\ resp' = [resp EXCEPT ![p] = NotCalled]
    /\ extracted' = [extracted EXCEPT ![p] = EmptyDict]
    /\ inquiry' = [inquiry EXCEPT ![p] = EmptyDict]
    /\ error_msg' = [error_msg EXCEPT ![p] = ""]
    /\ calls' = [calls EXCEPT ![p] = 0]
    /\ emitted' = [emitted EXCEPT ![p] = <<>>]
    /\ log' = [log EXCEPT ![p] = <<>>]
    /\ lastSetBy' = [i \in DOMAIN lastSetBy |->
                        IF lastSetBy[i] = p THEN Nobody ELSE lastSetBy[i]]
    /\ persisted' = [persisted EXCEPT ![p] = EmptyDict]
    /\ UNCHANGED store
    /\ UNCHANGED cvars

\* the entry treating a missing body as a failed extraction
EEntryMarksFailed(p) ==
    /\ pc[p] = "entry"
    /\ IF ~Truthy(Get(input_data[p], "body"))
       THEN /\ pc' = [pc EXCEPT ![p] = "mf_get"]
            /\ error_msg' = [error_msg EXCEPT ![p] = "No message body"]
            /\ log' = [log EXCEPT ![p] = Append(@, "warn: No message body")]
       ELSE /\ pc' = [pc EXCEPT ![p] = "call"]
            /\ UNCHANGED <<error_msg, log>>
    /\ UNCHANGED <<input_data, resp, extracted, inquiry, calls,
                   emitted, store, lastSetBy, persisted, delivered>>
    /\ UNCHANGED cvars

\* lines 41-56: read the fields, log, return early without a body
EEntry(p) ==
    /\ pc[p] = "entry"
    /\ IF ~Truthy(Get(input_data[p], "body"))
       THEN /\ pc' = [pc EXCEPT ![p] = "returned"]
            /\ log' = [log EXCEPT ![p] = Append(@, "warn: No message body")]
       ELSE /\ pc' = [pc EXCEPT ![p] = "call"]
            /\ log' = log
    /\ UNCHANGED <<input_data, resp, extracted, inquiry, error_msg, calls,
                   emitted, store, lastSetBy, persisted, delivered>>
    /\ UNCHANGED cvars

\* lines 58-114, 172-179: the one call of the completion service, which
\* answers r; an exception goes to the handler's except block, which calls
\* mark_as_failed
ECall(p, r) ==
    /\ pc[p] = "call"
    /\ calls' = [calls EXCEPT ![p] = @ + 1]
    /\ resp' = [resp EXCEPT ![p] = r]
    /\ IF r.raises
       THEN /\ pc' = [pc EXCEPT ![p] = "mf_get"]
            /\ error_msg' = [error_msg EXCEPT ![p] = r.msg]
            /\ log' = [log EXCEPT ![p] = Append(@, "error: EXTRACTION FAILED")]
       ELSE /\ pc' = [pc EXCEPT ![p] = "parse"]
            /\ UNCHANGED <<error_msg, log>>
    /\ UNCHANGED <<input_data, extracted, inquiry, emitted, store,
                   lastSetBy, persisted, delivered>>
    /\ UNCHANGED cvars

\* lines 116-138, 172-179: parse the completion text and log its fields
EParse(p) ==
    /\ pc[p] = "parse"
    /\ LET parsed == JsonLoads(resp[p].content) IN
         IF ~parsed.ok
         THEN /\ pc' = [pc EXCEPT ![p] = "mf_get"]
              /\ error_msg' = [error_msg EXCEPT ![p] = "JSON parse error: " \o parsed.err]
              /\ log' = [log EXCEPT ![p] = Append(@, "error: JSON PARSE ERROR")]
              /\ extracted' = extracted
         ELSE IF ~parsed.isObject \/ LoggingRaises(parsed.value)
         THEN /\ pc' = [pc EXCEPT ![p] = "mf_get"]
              /\ error_msg' = [error_msg EXCEPT ![p] = NoneGetMsg]
              /\ log' = [log EXCEPT ![p] = Append(@, "error: EXTRACTION FAILED")]
              /\ extracted' = [extracted EXCEPT ![p] = parsed.value]
         ELSE /\ pc' = [pc EXCEPT ![p] = "get"]
              /\ extracted' = [extracted EXCEPT ![p] = parsed.value]
              /\ UNCHANGED <<error_msg, log>>
    /\ UNCHANGED <<input_data, resp, inquiry, calls, emitted, store, lastSetBy,
                   persisted, delivered>>
    /\ UNCHANGED cvars

\* lines 141-152: state.get, then the update of the local record
EGet(p) ==
    /\ pc[p] = "get"
    /\ LET found == StateGet(store, IdOf(p)) IN
         /\ inquiry' = [inquiry EXCEPT ![p] =
                ExtractedInquiry(LoadOrStub(found, IdOf(p)), extracted[p],
                                 Get(input_data[p], "sender"))]
         /\ log' = IF ~TruthyDict(found)
                   THEN [log EXCEPT ![p] = Append(@, "error: not found in state")]
                   ELSE log
    /\ pc' = [pc EXCEPT ![p] = "set"]
    /\ UNCHANGED <<input_data, resp, extracted, error_msg, calls, emitted,
                   store, lastSetBy, persisted, delivered>>
    /\ UNCHANGED cvars

\* the handler going on to the emit with the state.set left out
ESetLeftOut(p) ==
    /\ pc[p] = "set"
    /\ pc' = [pc EXCEPT ![p] = "emit"]
    /\ UNCHANGED <<input_data, resp, extracted, inquiry, error_msg, calls,
                   emitted, log, store, lastSetBy, persisted, delivered>>
    /\ UNCHANGED cvars

\* line 154: state.set of the local record
ESet(p) ==
    /\ pc[p] = "set"
    /\ store' = StateSet(store, IdOf(p), inquiry[p])
    /\ lastSetBy' = StateSet(lastSetBy, IdOf(p), p)
    /\ persisted' = [persisted EXCEPT ![p] = inquiry[p]]
    /\ pc' = [pc EXCEPT ![p] = "emit"]
    /\ UNCHANGED <<input_data, resp, extracted, inquiry, error_msg, calls,
                   emitted, log, delivered>>
    /\ UNCHANGED cvars

\* the emit with nothing catching what it raises
EEmitUncaught(p, o) ==
    /\ pc[p] = "emit"
    /\ emitted' = IF EmitDelivers(o)
                  THEN [emitted EXCEPT ![p] =
                          Append(@, ExtractedEvent(input_data[p], inquiry[p], extracted[p]))]
                  ELSE emitted
    /\ pc' = [pc EXCEPT ![p] = "returned"]
    /\ error_msg' = IF EmitRaises(o)
                    THEN [error_msg EXCEPT ![p] = EmitErrorMsg]
                    ELSE error_msg
    /\ UNCHANGED <<input_data, resp, extracted, inquiry, calls, log, store,
                   lastSetBy, persisted, delivered>>
    /\ UNCHANGED cvars

\* lines 159-179: the emit; what it raises goes to the except block
EEmit(p, o) ==
    /\ pc[p] = "emit"
    /\ emitted' = IF EmitDelivers(o)
                  THEN [emitted EXCEPT ![p] =
                          Append(@, ExtractedEvent(input_data[p], inquiry[p], extracted[p]))]
                  ELSE emitted
    /\ IF EmitRaises(o)
       THEN /\ pc' = [pc EXCEPT ![p] = "mf_get"]
            /\ error_msg' = [error_msg EXCEPT ![p] = EmitErrorMsg]
            /\ log' = [log EXCEPT ![p] = Append(@, "error: EXTRACTION FAILED")]
       ELSE /\ pc' = [pc EXCEPT ![p] = "returned"]
            /\ UNCHANGED <<error_msg, log>>
    /\ UNCHANGED <<input_data, resp, extracted, inquiry, calls, store,
                   lastSetBy, persisted, delivered>>
    /\ UNCHANGED cvars

\* line 184: mark_as_failed's state.get
MfGet(p) ==
    /\ pc[p] = "mf_get"
    /\ inquiry' = [inquiry EXCEPT ![p] = LoadOrStub(StateGet(store, IdOf(p)), IdOf(p))]
    /\ pc' = [pc EXCEPT ![p] = "mf_set"]
    /\ UNCHANGED <<input_data, resp, extracted, error_msg, calls, emitted, log,
                   store, lastSetBy, persisted, delivered>>
    /\ UNCHANGED cvars

\* mark_as_failed's update applied to the record the store holds at the set
MfSetOnCurrent(p) ==
    /\ pc[p] = "mf_set"
    /\ store' = StateSet(store, IdOf(p),
                         FailedInquiry(LoadOrStub(StateGet(store, IdOf(p)), IdOf(p)),
                                       error_msg[p]))
    /\ lastSetBy' = StateSet(lastSetBy, IdOf(p), p)
    /\ pc' = [pc EXCEPT ![p] = "returned"]
    /\ UNCHANGED <<input_data, resp, extracted, inquiry, error_msg, calls,
                   emitted, log, persisted, delivered>>
    /\ UNCHANGED cvars

\* lines 185-187: mark_as_failed's update and state.set
MfSet(p) ==
    /\ pc[p] = "mf_set"
    /\ store' = StateSet(store, IdOf(p), FailedInquiry(inquiry[p], error_msg[p]))
    /\ lastSetBy' = StateSet(lastSetBy, IdOf(p), p)
    /\ pc' = [pc EXCEPT ![p] = "returned"]
    /\ UNCHANGED <<input_data, resp, extracted, inquiry, error_msg, calls,
                   emitted, log, persisted, delivered>>
    /\ UNCHANGED cvars

EInit ==
    /\ pc = [p \in Invocations |-> "idle"]
    /\ input_data = [p \in Invocations |-> EmptyDict]
    /\ resp = [p \in Invocations |-> NotCalled]
    /\ extracted = [p \in Invocations |-> EmptyDict]
    /\ inquiry = [p \in Invocations |-> EmptyDict]
    /\ error_msg = [p \in Invocations |-> ""]
    /\ calls = [p \in Invocations |-> 0]
    /\ emitted = [p \in Invocations |-> <<>>]
    /\ log = [p \in Invocations |-> <<>>]
    /\ store \in InitialStores
    /\ lastSetBy = EmptyDict
    /\ persisted = [p \in Invocations |-> EmptyDict]
    /\ delivered = 0

ENext ==
    \E p \in Invocations :
        \/ /\ pc[p] \in {"idle", "returned"}
           /\ delivered < MaxDeliveries
           /\ \E d \in ExtractInputs : EReceive(p, d)
        \/ EEntry(p)
        \/ \E r \in ExtractResponses : ECall(p, r)
        \/ EParse(p)
        \/ EGet(p)
        \/ ESet(p)
        \/ \E o \in EmitOutcomes : EEmit(p, o)
        \/ MfGet(p)
        \/ MfSet(p)

(* --------------------------------------------------------- specifications *)

Init == CInit /\ EInit

\* ClassifyMessage alone: the ExtractInquiry side stays idle
InitClassify == Init /\ DOMAIN store = {OtherId}

SpecClassify == InitClassify /\ [][CNext]_vars

\* ExtractInquiry alone: the ClassifyMessage side stays idle
SpecExtract == Init /\ [][ENext]_vars


(* ------------------------------------------------ ClassifyMessage: claims *)

\* the invocation has ended: it returned, or an exception escaped it
CFinished == cPc \in {"returned", "raised"}

\* the input carries messageId, source and a non-empty body
CRequiredFields ==
    /\ {"messageId", "source", "body"} \subseteq DOMAIN cInput
    /\ Truthy(cInput["body"])

\* the completion service answers with a JSON object that carries the four
\* classification fields, the confidence a number
CWellFormedResponse ==
    /\ ~cResp.raises
    /\ JsonLoads(cResp.content).ok
    /\ JsonLoads(cResp.content).isObject
    /\ {"isBrandInquiry", "confidence", "reasoning", "keywords"}
          \subseteq DOMAIN JsonLoads(cResp.content).value
    /\ IsNumber(JsonLoads(cResp.content).value["confidence"])

\* the completion call raises, or its text is not valid JSON
CFailingResponse ==
    IF cResp.raises THEN TRUE ELSE ~JsonLoads(cResp.content).ok

\* no context.emit of the invocation raised
CEmitsAccepted == cExc # EmitErrorMsg

Passthrough == {"messageId", "source", "subject", "senderId", "sender", "pageName"}

\* C1: every input with messageId, source and a non-empty body, answered by
\* the completion service with a well-formed JSON object, yields exactly one
\* message.classified event that holds the parsed isBrandInquiry, confidence,
\* reasoning and keywords and the input's messageId, source, subject,
\* senderId, sender and pageName unchanged.
C1_EmitsParsedClassification ==
    (CFinished /\ CRequiredFields /\ CWellFormedResponse /\ CEmitsAccepted) =>
        /\ Len(cEmitted) = 1
        /\ cEmitted[1].topic = "message.classified"
        /\ \A k \in {"isBrandInquiry", "confidence", "reasoning", "keywords"} :
              cEmitted[1].data[k] = JsonLoads(cResp.content).value[k]
        /\ \A k \in Passthrough \cap DOMAIN cInput :
              cEmitted[1].data[k] = cInput[k]

\* C2: every input with the required fields whose completion call raises, or
\* whose completion text is not valid JSON, yields exactly one
\* message.classified event with isBrandInquiry false, confidence 0.0, no
\* keywords and a non-empty reasoning.
C2_EmitsDefaultOnFailure ==
    (CFinished /\ CRequiredFields /\ CFailingResponse /\ CEmitsAccepted) =>
        /\ Len(cEmitted) = 1
        /\ cEmitted[1].topic = "message.classified"
        /\ cEmitted[1].data["isBrandInquiry"] = FALSE
        /\ cEmitted[1].data["confidence"] = "0.0"
        /\ cEmitted[1].data["keywords"] = <<>>
        /\ cEmitted[1].data["reasoning"] # ""

\* C3: every input without a body makes the handler log a warning and return
\* normally, with no completion call, no event and no escaping exception.
C3_NoBodyReturnsQuietly ==
    (CFinished /\ ~Truthy(Get(cInput, "body"))) =>
        /\ cPc = "returned"
        /\ \E n \in 1..Len(cLog) : cLog[n] = "warn: No message body"
        /\ cCalls = 0
        /\ cEmitted = <<>>

\* C7 as stated: every emitted event of an email input carries each threading
\* field the input carries, unchanged, and every emitted event of another
\* source carries none of them.
C7_ForwardsEveryPresentField ==
    \A n \in 1..Len(cEmitted) :
        LET data == cEmitted[n].data IN
        IF Get(cInput, "source") = "email"
        THEN \A k \in ThreadKeys \cap DOMAIN cInput :
                k \in DOMAIN data /\ data[k] = cInput[k]
        ELSE ThreadKeys \cap DOMAIN data = {}

\* C7 (amended): on every emitting path, an email input's threading fields
\* that are present and non-empty are on the event unchanged, those absent or
\* empty ("", [], {}) are not on it, and an event of any other source carries
\* no threading field.
C7_ForwardsNonEmptyFields ==
    \A n \in 1..Len(cEmitted) :
        LET data == cEmitted[n].data IN
        IF Get(cInput, "source") = "email"
        THEN \A k \in ThreadKeys :
                IF k \in DOMAIN cInput /\ Truthy(cInput[k])
                THEN k \in DOMAIN data /\ data[k] = cInput[k]
                ELSE k \notin DOMAIN data
        ELSE ThreadKeys \cap DOMAIN data = {}

\* an email event that forwards inReplyTo and drops an empty references list
C7_Witness ==
    /\ cPc = "returned"
    /\ Len(cEmitted) = 1
    /\ Get(cInput, "source") = "email"
    /\ Get(cInput, "inReplyTo") = "<msg1>"
    /\ Get(cInput, "references") = "[]"
    /\ Get(cEmitted[1].data, "inReplyTo") = "<msg1>"
    /\ "references" \notin DOMAIN cEmitted[1].data


\* C11: one invocation calls context.emit at most once on every path, and
\* the outer exception handler never adds a second message.classified event
\* to one the inner try block already delivered.
C11_EmitsAtMostOnce ==
    /\ cEmitCalls <= 1
    /\ Len(cEmitted) <= 1

ClassificationKeys == {"isBrandInquiry", "confidence", "reasoning", "keywords"}

\* line 124-127: the default of each classification field
ClassificationDefault(k) ==
    CASE k = "isBrandInquiry" -> FALSE
      [] k = "confidence" -> "0.0"
      [] k = "reasoning" -> "No reasoning provided"
      [] k = "keywords" -> <<>>

\* the completion service answers with a JSON object that omits some of the
\* classification fields, the confidence a number when present
COmittingResponse ==
    /\ ~cResp.raises
    /\ JsonLoads(cResp.content).ok
    /\ JsonLoads(cResp.content).isObject
    /\ ~(ClassificationKeys \subseteq DOMAIN JsonLoads(cResp.content).value)
    /\ IsNumber(GetD(JsonLoads(cResp.content).value, "confidence", "0.0"))

\* C18: every input with the required fields, answered with a JSON object
\* that omits some classification fields, yields exactly one
\* message.classified event in which each absent field has its default
\* (false, 0.0, "No reasoning provided", no keywords) and each present field
\* its parsed value.
C18_EmitsDefaultsForOmittedFields ==
    (CFinished /\ CRequiredFields /\ COmittingResponse /\ CEmitsAccepted) =>
        /\ Len(cEmitted) = 1
        /\ cEmitted[1].topic = "message.classified"
        /\ \A k \in ClassificationKeys :
              cEmitted[1].data[k] =
                  GetD(JsonLoads(cResp.content).value, k, ClassificationDefault(k))

(* ------------------------------------------------- ExtractInquiry: claims *)

\* the invocation has ended on an input with inquiryId, source and a
\* non-empty body
EReturnedRequired(p) ==
    /\ pc[p] = "returned"
    /\ {"inquiryId", "source", "body"} \subseteq DOMAIN input_data[p]
    /\ Truthy(input_data[p]["body"])

\* the completion service answered with JSON that matches the schema
EWellFormedResponse(p) ==
    /\ calls[p] = 1
    /\ ~resp[p].raises
    /\ JsonLoads(resp[p].content).ok
    /\ JsonLoads(resp[p].content).isObject
    /\ ~LoggingRaises(JsonLoads(resp[p].content).value)

\* the completion call raised, or its text did not parse
EFailingResponse(p) ==
    /\ calls[p] = 1
    /\ IF resp[p].raises THEN TRUE ELSE ~JsonLoads(resp[p].content).ok

\* no context.emit of the invocation raised
EEmitsAccepted(p) == error_msg[p] # EmitErrorMsg

\* no state.set on the invocation's inquiry has run since its own
ELastToSet(p) == Get(lastSetBy, IdOf(p)) = p

C5_MarksFailedWithoutEmitting ==
    \A p \in Invocations :
        (EReturnedRequired(p) /\ EFailingResponse(p)) =>
            /\ emitted[p] = <<>>
            /\ error_msg[p] # ""
            /\ ELastToSet(p) =>
                  /\ IdOf(p) \in DOMAIN store
                  /\ Get(store[IdOf(p)], "status") = "extraction_failed"
                  /\ "error" \in DOMAIN store[IdOf(p)]
                  /\ store[IdOf(p)]["error"] = error_msg[p]

C5_Witness ==
    \E p \in Invocations :
        /\ EReturnedRequired(p) /\ EFailingResponse(p)
        /\ ~resp[p].raises
        /\ ELastToSet(p)
        /\ store[IdOf(p)]["status"] = "extraction_failed"
        /\ store[IdOf(p)]["error"] = "JSON parse error: " \o JsonDecodeMsg

StatusOf(st, i) == Get(st[i], "status")

\* C6 as stated: once the stored status is "extracted" or "extraction_failed"
\* it never changes again, over any sequence of invocations (here: even of
\* invocations whose emits are all accepted).
C6_StatusTerminal ==
    [][(\A p \in Invocations : EEmitsAccepted(p) /\ error_msg'[p] # EmitErrorMsg) =>
          \A i \in DOMAIN store :
              StatusOf(store, i) \in {"extracted", "extraction_failed"} =>
                  StatusOf(store', i) = StatusOf(store, i)]_vars

\* C6 (amended): the stored status never returns to "received": every
\* state.set of this code writes "extracted" or "extraction_failed", so a
\* record written once stays within these two, but neither is terminal.
C6_NeverBackToReceived ==
    [][/\ DOMAIN store \subseteq DOMAIN store'
       /\ \A i \in DOMAIN store' :
             \/ i \in DOMAIN store /\ store'[i] = store[i]
             \/ StatusOf(store', i) \in {"extracted", "extraction_failed"}]_vars

\* a record that was "extracted" and is now "extraction_failed"
C6_Witness ==
    \E i \in InquiryIds :
        /\ i \in DOMAIN store
        /\ StatusOf(store, i) = "extraction_failed"
        /\ "extractedData" \in DOMAIN store[i]

ErrorMsgs == {"Connection error.", "JSON parse error: " \o JsonDecodeMsg}

\* C8: on every store, mark_as_failed(inquiryId, error_msg) creates the
\* record {id} when there is none, sets status "extraction_failed" and error
\* error_msg, leaves the record's other fields and the other records as they
\* are, and a second call with the same arguments changes nothing.
C8_MarkAsFailedIdempotentUpsert ==
    \A i \in InquiryIds \cup {OtherId}, msg \in ErrorMsgs :
        LET once  == mark_as_failed(store, i, msg)
            twice == mark_as_failed(once, i, msg)
        IN  /\ twice = once
            /\ DOMAIN once = DOMAIN store \cup {i}
            /\ \A j \in DOMAIN store \ {i} : once[j] = store[j]
            /\ once[i]["status"] = "extraction_failed"
            /\ once[i]["error"] = msg
            /\ once[i]["id"] = i
            /\ IF i \in DOMAIN store
               THEN /\ DOMAIN once[i] = DOMAIN store[i] \cup {"status", "error"}
                    /\ \A k \in DOMAIN store[i] \ {"status", "error"} :
                          once[i][k] = store[i][k]
               ELSE DOMAIN once[i] = {"id", "status", "error"}

\* an invocation has run mark_as_failed on a record that held extracted data,
\* and running it again would leave the store as it is
C8_Witness ==
    \E p \in Invocations :
        /\ pc[p] = "returned"
        /\ ELastToSet(p)
        /\ StatusOf(store, IdOf(p)) = "extraction_failed"
        /\ store[IdOf(p)]["error"] = error_msg[p]
        /\ "extractedData" \in DOMAIN store[IdOf(p)]
        /\ mark_as_failed(store, IdOf(p), error_msg[p]) = store

\* C9: every state.set installs the record its invocation built from its own
\* earlier state.get, whatever the store holds by then, and nothing else
\* changes the store: the record stored is the one the last state.set wrote.
C9_LastSetWins ==
    [][/\ \A p \in Invocations :
             /\ (pc[p] = "set" /\ pc'[p] = "emit") =>
                    store' = StateSet(store, IdOf(p), inquiry[p])
             /\ (pc[p] = "mf_set" /\ pc'[p] = "returned") =>
                    store' = StateSet(store, IdOf(p),
                                      FailedInquiry(inquiry[p], error_msg[p]))
       /\ store' # store =>
             \E p \in Invocations : pc[p] \in {"set", "mf_set"} /\ pc'[p] # pc[p]]_vars

\* two invocations for one inquiry have both returned; the one that stored
\* and emitted the extracted data was overwritten by the other's failure
\* record, built from a read that preceded it
C9_Witness ==
    \E p, q \in Invocations :
        /\ p # q
        /\ IdOf(p) = IdOf(q)
        /\ pc[p] = "returned" /\ pc[q] = "returned"
        /\ Len(emitted[p]) = 1
        /\ inquiry[p]["status"] = "extracted"
        /\ ELastToSet(q)
        /\ StatusOf(store, IdOf(q)) = "extraction_failed"
        /\ "extractedData" \notin DOMAIN store[IdOf(q)]

\* C10: an invocation of ClassifyMessage or of ExtractInquiry on an input
\* with the required fields calls the completion service exactly once.
C10_OneCompletionCall ==
    /\ (CFinished /\ CRequiredFields) => cCalls = 1
    /\ \A p \in Invocations : EReturnedRequired(p) => calls[p] = 1

\* C12: whenever an invocation has emitted an inquiry.extracted event, that
\* same invocation has already executed the state.set of a record with status
\* "extracted" whose extractedData is the event's extracted field; an
\* invocation that has not written status "extracted" has emitted nothing.
C12_PersistPrecedesEmit ==
    \A p \in Invocations :
        \A k \in 1..Len(emitted[p]) :
            /\ emitted[p][k].topic = "inquiry.extracted"
            /\ Get(persisted[p], "status") = "extracted"
            /\ "extractedData" \in DOMAIN persisted[p]
            /\ persisted[p]["extractedData"] = emitted[p][k].data["extracted"]

\* an invocation has emitted its event after its state.set, and the record
\* it wrote is the stored one
C12_Witness ==
    \E p \in Invocations :
        /\ Len(emitted[p]) = 1
        /\ persisted[p] # EmptyDict
        /\ store[IdOf(p)] = persisted[p]
        /\ emitted[p][1].data["extracted"] = JsonLoads(TextDeal2).value

\* the invocation's emit raised, after its state.set
EEmitRaised(p) == persisted[p] # EmptyDict /\ error_msg[p] = EmitErrorMsg

\* C13 as stated: an invocation whose emit raised after its state.set of the
\* "extracted" record ends with the stored record (unless a later state.set
\* replaced it) at status "extraction_failed", with an error, and with the
\* extractedData the invocation wrote.
C13_ExtractedDataAlwaysRemains ==
    \A p \in Invocations :
        (EEmitRaised(p) /\ pc[p] = "returned" /\ ELastToSet(p)) =>
            /\ StatusOf(store, IdOf(p)) = "extraction_failed"
            /\ "error" \in DOMAIN store[IdOf(p)]
            /\ "extractedData" \in DOMAIN store[IdOf(p)]
            /\ store[IdOf(p)]["extractedData"] = persisted[p]["extractedData"]

\* C13 (amended): an invocation whose emit raised after its state.set of the
\* "extracted" record goes through mark_as_failed before it ends, and then
\* the stored record (unless a later state.set replaced it) has status
\* "extraction_failed" and the emit's error, and keeps the extractedData
\* and the other fields the invocation wrote when mark_as_failed loaded the
\* record it wrote; an invocation that ended leaving its own record stored
\* with status "extracted" had its emit complete.
C13_EmitFailureMarksFailed ==
    \A p \in Invocations :
        /\ (EEmitRaised(p) /\ pc[p] # "returned") => pc[p] \in {"mf_get", "mf_set"}
        /\ (EEmitRaised(p) /\ pc[p] = "returned" /\ ELastToSet(p)) =>
              /\ StatusOf(store, IdOf(p)) = "extraction_failed"
              /\ Get(store[IdOf(p)], "error") = EmitErrorMsg
              /\ inquiry[p] = persisted[p] =>
                    /\ DOMAIN store[IdOf(p)] = DOMAIN persisted[p] \cup {"error"}
                    /\ \A k \in DOMAIN persisted[p] \ {"status", "error"} :
                          store[IdOf(p)][k] = persisted[p][k]
        /\ (pc[p] = "returned" /\ persisted[p] # EmptyDict /\ ELastToSet(p)
               /\ StatusOf(store, IdOf(p)) = "extracted") =>
              /\ ~EEmitRaised(p)
              /\ Len(emitted[p]) = 1

\* an invocation stored the extracted data, its emit raised, and it ended
\* with the record marked failed and the extracted data still on it
C13_Witness ==
    \E p \in Invocations :
        /\ EEmitRaised(p)
        /\ pc[p] = "returned"
        /\ ELastToSet(p)
        /\ inquiry[p] = persisted[p]
        /\ StatusOf(store, IdOf(p)) = "extraction_failed"
        /\ store[IdOf(p)]["error"] = EmitErrorMsg
        /\ store[IdOf(p)]["extractedData"] = extracted[p]
        /\ extracted[p] = JsonLoads(TextDeal1).value

ExtractionKeys == {"status", "extractedData", "extractedAt"}

\* C14: the success path builds its record from the stored one (from the stub
\* {id} when there is none) by setting status, extractedData and extractedAt,
\* and sender only when the stored record has none and the input has one; a
\* stored sender and every other stored field keep their values; the
\* state.set then writes that record under the inquiryId and touches no other
\* record.
C14_OnlyExtractionFieldsChange ==
    [][\A p \in Invocations :
          /\ (pc[p] = "get" /\ pc'[p] = "set") =>
                LET old == IF IdOf(p) \in DOMAIN store
                           THEN store[IdOf(p)]
                           ELSE [id |-> IdOf(p)]
                    new == inquiry'[p]
                    snd == Get(input_data[p], "sender")
                    adds == Truthy(snd) /\ ~Truthy(Get(old, "sender"))
                IN  /\ DOMAIN new = DOMAIN old \cup ExtractionKeys
                                       \cup (IF adds THEN {"sender"} ELSE {})
                    /\ new["status"] = "extracted"
                    /\ new["extractedData"] = extracted[p]
                    /\ new["extractedAt"] = NowIso
                    /\ adds => new["sender"] = snd
                    /\ \A k \in DOMAIN old \ ExtractionKeys :
                          (k # "sender" \/ ~adds) => new[k] = old[k]
          /\ (pc[p] = "set" /\ pc'[p] = "emit") =>
                /\ DOMAIN store' = DOMAIN store \cup {IdOf(p)}
                /\ store'[IdOf(p)] = inquiry[p]
                /\ \A j \in DOMAIN store \ {IdOf(p)} : store'[j] = store[j]]_vars

\* an input with a sender met a stored record with its own sender and
\* threadKey: the record written keeps both; and an input met no stored
\* record: the record written is the updated stub
C14_Witness ==
    \E p \in Invocations :
        /\ pc[p] \in {"emit", "returned"}
        /\ persisted[p] # EmptyDict
        /\ store[IdOf(p)] = persisted[p]
        /\ \/ /\ Get(input_data[p], "sender") = "S1"
              /\ store[IdOf(p)] = [id |-> IdOf(p), status |-> "extracted",
                                   extractedData |-> extracted[p],
                                   extractedAt |-> NowIso,
                                   sender |-> "S0", threadKey |-> "tk0"]
           \/ /\ Get(input_data[p], "sender") = "S1"
              /\ store[IdOf(p)] = [id |-> IdOf(p), status |-> "extracted",
                                   extractedData |-> extracted[p],
                                   extractedAt |-> NowIso,
                                   sender |-> "S1"]
              /\ "error: not found in state" \in {log[p][n] : n \in 1..Len(log[p])}

\* the invocation's input has no body, or an empty one
ENoBody(p) == ~Truthy(Get(input_data[p], "body"))

\* C15: an invocation whose input has no body or an empty body ends in one
\* step that calls no completion, emits nothing, loads no record and leaves
\* the store as it is; it never reaches the completion call, a state.get, a
\* state.set or mark_as_failed.
C15_NoBodyLeavesStoreAlone ==
    [][\A p \in Invocations :
          /\ (pc[p] = "entry" /\ ENoBody(p) /\ pc'[p] # pc[p]) =>
                /\ pc'[p] = "returned"
                /\ calls'[p] = 0
                /\ emitted'[p] = <<>>
                /\ inquiry'[p] = EmptyDict
                /\ persisted'[p] = EmptyDict
                /\ error_msg'[p] = ""
                /\ store' = store
                /\ lastSetBy' = lastSetBy
          /\ (ENoBody(p) /\ pc[p] # "idle") => pc'[p] \in {"idle", "entry", "returned"}]_vars

\* an invocation without a body has returned and the record of its inquiry
\* still has status "received"
C15_Witness ==
    \E p \in Invocations :
        /\ pc[p] = "returned"
        /\ ENoBody(p)
        /\ calls[p] = 0
        /\ IdOf(p) \in DOMAIN store
        /\ StatusOf(store, IdOf(p)) = "received"
        /\ log[p] = <<"warn: No message body">>

\* some state.set of this code has written the record of inquiry i
EWritten(i) == i \in DOMAIN lastSetBy

\* C16: in every reachable store, a record with status "extracted" has
\* extractedData and extractedAt, a record with status "extraction_failed"
\* has error, every record a state.set of this code wrote has one of these
\* two statuses, and a record no state.set wrote is still the upstream one.
C16_StoredRecordsWellFormed ==
    \A i \in DOMAIN store :
        /\ Get(store[i], "id") = i
        /\ StatusOf(store, i) = "extracted" =>
              {"extractedData", "extractedAt"} \subseteq DOMAIN store[i]
        /\ StatusOf(store, i) = "extraction_failed" =>
              /\ "error" \in DOMAIN store[i]
              /\ store[i]["error"] # None
        /\ EWritten(i) => StatusOf(store, i) \in {"extracted", "extraction_failed"}
        /\ ~EWritten(i) => store[i] \in {ReceivedPlain(i), ReceivedFull(i)}

\* a record that failed once and was extracted on redelivery: status
\* "extracted" with the extracted data, the timestamp and the old error
C16_Witness ==
    \E i \in InquiryIds :
        /\ i \in DOMAIN store
        /\ EWritten(i)
        /\ StatusOf(store, i) = "extracted"
        /\ {"extractedData", "extractedAt", "error"} \subseteq DOMAIN store[i]

\* C17 as stated: every inquiry.extracted event carries the input's inquiryId
\* and source, the input's threadKey when the input has one and otherwise
\* the stored record's, and the input's sender when the input has one and
\* otherwise the stored record's.
C17_EventPrefersPresentInput ==
    \A p \in Invocations :
        \A n \in 1..Len(emitted[p]) :
            LET e == emitted[p][n].data
                d == input_data[p]
            IN  /\ e["inquiryId"] = Get(d, "inquiryId")
                /\ e["source"] = Get(d, "source")
                /\ e["threadKey"] = IF "threadKey" \in DOMAIN d
                                    THEN d["threadKey"]
                                    ELSE Get(persisted[p], "threadKey")
                /\ e["sender"] = IF "sender" \in DOMAIN d
                                 THEN d["sender"]
                                 ELSE Get(persisted[p], "sender")

\* C17 (amended): every inquiry.extracted event carries the input's inquiryId
\* and source, the input's threadKey when the input has a non-empty one and
\* otherwise the stored record's (None when it has none either), and likewise
\* for sender; with a non-empty sender on both, the event's is the input's.
C17_EventPrefersNonEmptyInput ==
    \A p \in Invocations :
        \A n \in 1..Len(emitted[p]) :
            LET e == emitted[p][n].data
                d == input_data[p]
            IN  /\ DOMAIN e = {"inquiryId", "source", "threadKey", "extracted", "sender"}
                /\ e["inquiryId"] = Get(d, "inquiryId")
                /\ e["source"] = Get(d, "source")
                /\ e["threadKey"] = IF Truthy(Get(d, "threadKey"))
                                    THEN d["threadKey"]
                                    ELSE Get(persisted[p], "threadKey")
                /\ e["sender"] = IF Truthy(Get(d, "sender"))
                                 THEN d["sender"]
                                 ELSE Get(persisted[p], "sender")

\* the input and the stored record both have a sender and a threadKey: the
\* event carries the input's, the stored record keeps its own
C17_Witness ==
    \E p \in Invocations :
        /\ Len(emitted[p]) = 1
        /\ Get(input_data[p], "sender") = "S1"
        /\ emitted[p][1].data["sender"] = "S1"
        /\ emitted[p][1].data["threadKey"] = "tk1"
        /\ store[IdOf(p)] = persisted[p]
        /\ store[IdOf(p)]["sender"] = "S0"
        /\ store[IdOf(p)]["threadKey"] = "tk0"

====
